---- MODULE Spec2Model ----
(***************************************************************************)
(* A model of the buddy-reward referral application.                       *)
(*                                                                         *)
(*   Spec       the session/identity adapter (AuthProvider), the router    *)
(*              pages that read it (Index, Auth, ResetPassword) and the    *)
(*              auth provider they talk to.                                *)
(*   SpecStore  the referrals table behind its row-level security          *)
(*              policies, called directly through the client API.         *)
(*   SpecRoles  the user_roles table, its policies and the signup trigger. *)
(*   SpecDash   the add-referral forms of the referrer dashboard and of    *)
(*              the admin panel, on top of the referrals table.            *)
(*   SpecLive   Spec with the start-up requests answered (weak fairness).  *)
(*   SpecAuthForms  the sign-in, sign-up and forgot-password forms of the  *)
(*              Auth page.                                                 *)
(*   SpecEdit   the edit dialog of the admin panel, on a table of two      *)
(*              referrals.                                                 *)
(*   SpecLists  the list of the admin panel, with the answers of its        *)
(*              fetches delivered in any order.                            *)
(*   SpecPay    the payment tab of the referrer dashboard and the profiles *)
(*              table.                                                     *)
(*                                                                         *)
(* A JavaScript null is the string "null"; an absent query parameter or an *)
(* empty input is the empty string.                                        *)
(***************************************************************************)
EXTENDS Integers, Sequences, FiniteSets, TLC

Null == "null"

(***************************************************************************)
(* Values                                                                  *)
(***************************************************************************)

\* auth.users ids: two referrers and an administrator.
Users == {"u1", "u2", "adm"}

\* The provider's sessions: one of the referrer u1, one of the administrator.
Sessions == {"s_u1", "s_adm"}

\* session.user.id
SessionUser(s) ==
  CASE s = "s_u1" -> "u1"
    [] s = "s_adm" -> "adm"
    [] OTHER -> Null

\* session.access_token / session.refresh_token
AccessToken(s) == IF s = Null THEN Null ELSE "at_" \o s
RefreshToken(s) == IF s = Null THEN Null ELSE "rt_" \o s

\* The session the provider gives for a pair of tokens (setSession).
SessionOfTokens(at, rt) ==
  IF \E s \in Sessions : AccessToken(s) = at /\ RefreshToken(s) = rt
  THEN CHOOSE s \in Sessions : AccessToken(s) = at /\ RefreshToken(s) = rt
  ELSE Null

\* JSON.stringify(session): the JSON text of a session object, or of null.
JSONStringify(s) == IF s = Null THEN "null" ELSE "{session:" \o s \o "}"

\* JSON.parse(text): the parsed value, or "SyntaxError" when it throws.
JSONParse(text) ==
  IF text = "null" THEN Null
  ELSE IF \E s \in Sessions : JSONStringify(s) = text
       THEN CHOOSE s \in Sessions : JSONStringify(s) = text
       ELSE "SyntaxError"

\* localStorage.getItem of a key that is not set.
Absent == "absent"

\* The values the local-storage slot 'recovery_session' can hold when a page
\* loads: nothing, a session stored by an earlier interception, or a text
\* that does not parse (the case updatePassword's try/catch is written for).
StoredValues == {Absent, "not json", JSONStringify("s_u1")}

\* window.location.search, as the three parameters the code reads.
NoSearch == [type |-> "", access_token |-> "", refresh_token |-> ""]

SearchValues ==
  { NoSearch,
    [type |-> "recovery", access_token |-> "", refresh_token |-> ""],
    [type |-> "", access_token |-> "tok", refresh_token |-> ""],
    [type |-> "", access_token |-> "", refresh_token |-> "tok"] }

Paths == {"/", "/auth", "/reset-password"}

\* The events of the provider's state-change stream (AuthChangeEvent).
AuthEvents ==
  {"INITIAL_SESSION", "SIGNED_IN", "SIGNED_OUT", "TOKEN_REFRESHED",
   "USER_UPDATED", "PASSWORD_RECOVERY"}

\* urlParams.get('type') === 'recovery' || urlParams.get('access_token') ||
\* urlParams.get('refresh_token')
IsRecoveryFlow(q) ==
  q.type = "recovery" \/ q.access_token # "" \/ q.refresh_token # ""

\* The same test as the reset-password page makes it on its search params.
IsPasswordResetSession(q) ==
  q.type = "recovery" \/ q.access_token # "" \/ q.refresh_token # ""

(***************************************************************************)
(* State                                                                   *)
(***************************************************************************)

VARIABLES
  \* the browser
  path,              \* window.location.pathname
  search,            \* window.location.search
  recovery_session,  \* localStorage['recovery_session']
  \* the auth provider
  providerSession,   \* the session the provider's client holds (persisted)
  \* AuthProvider
  isRecoveryFlow,    \* the constant the mount effect computes
  user, session, userRole, loading,
  getSessionPending, \* the getSession() promise of the mount effect
  roleFetch,         \* user ids whose deferred role fetch has not resolved
  intercept,         \* the listener's recovery interception: idle, signOut
  up,                \* updatePassword: its position and what it did
  so,                \* signOut called from the Index header
  \* pages
  rp,                \* ResetPassword: handlePasswordReset, isSuccess, error
  au,                \* Auth: handleSignIn / handleSignUp and their outcome
  af,                \* Auth: its form inputs and handleForgotPassword
  \* the data store
  auth_users,        \* auth.users: the ids that have signed up
  user_roles,        \* public.user_roles
  referrals,         \* public.referrals
  last,              \* the last request the store answered, and its answer
  \* the add-referral forms
  rd,                \* ReferrerDashboard
  ap,                \* AdminPanel
  ed,                \* AdminPanel: the referral list and its edit dialog
  \* the payment details
  profiles,          \* public.profiles: the row of PayUser
  pay                \* ReferrerDashboard: the payment tab

browserVars == <<path, search, recovery_session>>
adapterVars ==
  <<isRecoveryFlow, user, session, userRole, loading, getSessionPending,
    roleFetch, intercept, up, so>>
pageVars == <<rp, au>>
authVars == <<browserVars, providerSession, adapterVars, pageVars, af>>
storeVars == <<referrals, last>>
dashVars == <<rd, ap, ed>>
roleVars == <<auth_users, user_roles>>
payVars == <<profiles, pay>>
vars == <<authVars, roleVars, storeVars, dashVars, payVars>>

(***************************************************************************)
(* The store: user_roles and its row-level security                        *)
(***************************************************************************)

\* CREATE TYPE public.app_role
AppRole == {"admin", "referrer"}

\* public.has_role(_user_id, _role)
HasRole(uid, role) == [user_id |-> uid, role |-> role] \in user_roles

\* "Users can view their own roles", "Admins can view all roles" and the
\* FOR ALL policy: the rows of user_roles a SELECT by uid sees.
SelectUserRoles(uid) ==
  {r \in user_roles : r.user_id = uid \/ HasRole(uid, "admin")}

\* .single(): the one row, or null (with an error) when there is not exactly one.
Single(rows) ==
  IF Cardinality(rows) = 1 THEN (CHOOSE r \in rows : TRUE).role ELSE Null

(***************************************************************************)
(* AuthProvider: construction, the auth-state listener, the role fetch     *)
(***************************************************************************)

\* updatePassword at rest. pc is its position (idle, or the call it awaits),
\* recoverySession its local of that name, log the provider calls it has
\* made, result and toast what its last invocation returned and showed.
UpIdle ==
  [pc |-> "idle", recoverySession |-> Null, log |-> <<>>,
   result |-> "none", toast |-> "none"]

NoResp == [error |-> Null, user |-> Null, session |-> Null]
AuIdle == [pc |-> "idle", result |-> "none", toast |-> "none"]

\* The inputs of the Auth page as it mounts, and handleForgotPassword at rest:
\* signInData and signUpData (each as one text), forgotPasswordEmail,
\* showForgotPassword, the position of the handler, what resetPassword last
\* returned and showed.
AfIdle ==
  [signInData |-> "", signUpData |-> "", forgotPasswordEmail |-> "",
   showForgotPassword |-> FALSE, pc |-> "idle", result |-> "none",
   toast |-> "none"]

InvalidLink == "Invalid or expired reset link. Please request a new password reset."

\* ResetPassword as it mounts: its effect sets the error when the URL carries
\* no recovery indicator.
RpMount(q) ==
  [pc |-> "idle", isSuccess |-> FALSE,
   error |-> IF IsPasswordResetSession(q) THEN "" ELSE InvalidLink]

\* A full page load at path p with query q (the initial load, or an
\* assignment to window.location.href): the React state is fresh and the mount
\* effect of AuthProvider has run. Local storage and the provider's persisted
\* session survive.
Reload(p, q) ==
  /\ path' = p
  /\ search' = q
  /\ isRecoveryFlow' = IsRecoveryFlow(q)
  /\ user' = Null
  /\ session' = Null
  /\ userRole' = Null
  /\ loading' = ~IsRecoveryFlow(q)
  /\ getSessionPending' = ~IsRecoveryFlow(q)
  /\ roleFetch' = {}
  /\ intercept' = "idle"
  /\ up' = UpIdle
  /\ so' = "idle"
  /\ rp' = RpMount(q)
  /\ au' = AuIdle
  /\ af' = AfIdle

\* What one call of the onAuthStateChange listener leaves in the variables it
\* writes: the interception of a recovery auto-login, or the normal update.
ListenerNoIntercept(event, sess) ==
  [recovery_session |-> recovery_session,
   intercept |-> intercept,
   session |-> sess,
   user |-> SessionUser(sess),
   userRole |-> IF SessionUser(sess) # Null /\ ~isRecoveryFlow
                THEN userRole ELSE Null,
   loading |-> IF SessionUser(sess) # Null /\ ~isRecoveryFlow
               THEN loading ELSE FALSE,
   roleFetch |-> IF SessionUser(sess) # Null /\ ~isRecoveryFlow
                 THEN roleFetch \cup {SessionUser(sess)} ELSE roleFetch]

ListenerNoStore(event, sess) ==
  IF isRecoveryFlow /\ event = "SIGNED_IN"
  THEN [recovery_session |-> recovery_session,
        intercept |-> "signOut",
        session |-> session,
        user |-> user,
        userRole |-> userRole,
        loading |-> loading,
        roleFetch |-> roleFetch]
  ELSE ListenerNoIntercept(event, sess)
Listener(event, sess) ==
  IF isRecoveryFlow /\ event = "SIGNED_IN"
  THEN [recovery_session |-> JSONStringify(sess),
        intercept |-> "signOut",
        session |-> session,
        user |-> user,
        userRole |-> userRole,
        loading |-> loading,
        roleFetch |-> roleFetch]
  ELSE ListenerNoIntercept(event, sess)

\* The listener's writes, applied.
Notify(event, sess) ==
  LET l == Listener(event, sess) IN
  /\ recovery_session' = l.recovery_session
  /\ intercept' = l.intercept
  /\ session' = l.session
  /\ user' = l.user
  /\ userRole' = l.userRole
  /\ loading' = l.loading
  /\ roleFetch' = l.roleFetch

\* The provider changes state on its own (a session found in the URL, a token
\* refresh, a sign-in or sign-out in another tab) and calls the listener.
\* SIGNED_IN and PASSWORD_RECOVERY carry the new session, SIGNED_OUT carries
\* null, the other events carry the session the provider holds.
ProviderEmit(event, sess) ==
  /\ CASE event \in {"SIGNED_IN", "PASSWORD_RECOVERY"} -> sess \in Sessions
       [] event = "SIGNED_OUT" -> sess = Null /\ providerSession # Null
       [] event = "INITIAL_SESSION" -> sess = providerSession
       [] OTHER -> sess = providerSession /\ providerSession # Null
  /\ providerSession' = sess
  /\ Notify(event, sess)
  /\ UNCHANGED <<path, search, isRecoveryFlow, getSessionPending, up, so,
                 pageVars, af, roleVars, storeVars, dashVars, payVars>>

\* supabase.auth.signOut() resolving inside the interception: the provider
\* drops its session and reports SIGNED_OUT, or fails and keeps it; the code
\* does not look at the outcome and assigns window.location.href.
InterceptRedirect(ok) ==
  /\ intercept = "signOut"
  /\ providerSession' = IF ok THEN Null ELSE providerSession
  /\ Reload("/reset-password", search)
  /\ UNCHANGED <<recovery_session, roleVars, storeVars, dashVars, payVars>>

\* supabase.auth.getSession() of the mount effect resolving.
GetSessionResolve ==
  /\ getSessionPending
  /\ getSessionPending' = FALSE
  /\ session' = providerSession
  /\ user' = SessionUser(providerSession)
  /\ IF SessionUser(providerSession) # Null
     THEN /\ roleFetch' = roleFetch \cup {SessionUser(providerSession)}
          /\ UNCHANGED loading
     ELSE /\ loading' = FALSE
          /\ UNCHANGED roleFetch
  /\ UNCHANGED <<browserVars, providerSession, isRecoveryFlow, userRole,
                 intercept, up, so, pageVars, af, roleVars, storeVars, dashVars,
                 payVars>>

\* The deferred role fetch for user id u resolving: the select runs under the
\* session the provider holds by then, behind the policies of user_roles.
RoleFetchResolveNoFinally(u) ==
  /\ u \in roleFetch
  /\ roleFetch' = roleFetch \ {u}
  /\ userRole' =
       Single({r \in SelectUserRoles(SessionUser(providerSession)) :
                 r.user_id = u})
  /\ UNCHANGED <<browserVars, providerSession, isRecoveryFlow, user, session,
                 loading, getSessionPending, intercept, up, so, pageVars, af,
                 roleVars, storeVars, dashVars, payVars>>
RoleFetchResolve(u) ==
  /\ u \in roleFetch
  /\ roleFetch' = roleFetch \ {u}
  /\ userRole' =
       Single({r \in SelectUserRoles(SessionUser(providerSession)) :
                 r.user_id = u})
  /\ loading' = FALSE
  /\ UNCHANGED <<browserVars, providerSession, isRecoveryFlow, user, session,
                 getSessionPending, intercept, up, so, pageVars, af, roleVars,
                 storeVars, dashVars, payVars>>

(***************************************************************************)
(* updatePassword and the reset-password page                              *)
(***************************************************************************)

\* minLength of the two password inputs
MinLength == 6

\* What the user can type into the password inputs.
Passwords == {"", "abc", "hunter22", "hunter23"}

NoValidSession == "No valid session found for password reset"

\* recoverySession of updatePassword: the stored text parsed, null when the
\* slot is empty or the text does not parse.
RecoverySession(stored) ==
  IF stored = Absent \/ JSONParse(stored) = "SyntaxError"
  THEN Null
  ELSE JSONParse(stored)

\* const sessionToUse = recoverySession || session
SessionToUse(rec, amb) == IF rec # Null THEN rec ELSE amb

SetSessionCall(s) ==
  "setSession(" \o AccessToken(s) \o "," \o RefreshToken(s) \o ")"

\* updatePassword from its entry to its first await: it returns the error
\* without a provider call, or calls setSession when a recovery session was
\* stored, or else calls updateUser.
UpdatePasswordNoSetSession(stored, amb) ==
  LET rec == RecoverySession(stored) IN
  IF AccessToken(SessionToUse(rec, amb)) = Null
  THEN [UpIdle EXCEPT !.result = NoValidSession,
                      !.toast = "Password update failed"]
  ELSE [UpIdle EXCEPT !.recoverySession = rec, !.pc = "updateUser",
                      !.log = <<"updateUser">>]
UpdatePasswordEntry(stored, amb) ==
  LET rec == RecoverySession(stored) IN
  IF AccessToken(SessionToUse(rec, amb)) = Null
  THEN [UpIdle EXCEPT !.result = NoValidSession,
                      !.toast = "Password update failed"]
  ELSE IF rec # Null
       THEN [UpIdle EXCEPT !.recoverySession = rec, !.pc = "setSession",
                           !.log = <<SetSessionCall(rec)>>]
       ELSE [UpIdle EXCEPT !.recoverySession = rec, !.pc = "updateUser",
                           !.log = <<"updateUser">>]

\* What ResetPassword renders: the redirect of a signed-in user whose URL has
\* no recovery indicator, the success card, the invalid-link card, or the
\* new-password form.
ResetViewNoGate ==
  IF user # Null /\ ~IsPasswordResetSession(search) THEN "Navigate /"
  ELSE IF rp.isSuccess THEN "Success"
  ELSE "Form"
ResetView ==
  IF user # Null /\ ~IsPasswordResetSession(search) THEN "Navigate /"
  ELSE IF rp.isSuccess THEN "Success"
  ELSE IF ~IsPasswordResetSession(search) THEN "InvalidLink"
  ELSE "Form"

\* The two checks of handlePasswordReset before it calls updatePassword: the
\* error it sets, or "" when the passwords pass.
PasswordErrorNone(pw, confirm) == ""
PasswordError(pw, confirm) ==
  IF pw # confirm THEN "Passwords do not match"
  ELSE IF Len(pw) < 6 THEN "Password must be at least 6 characters long"
  ELSE ""

\* The submit of the new-password form. The browser validates the inputs
\* (required, minLength) before the handler runs; the handler checks the two
\* passwords and calls updatePassword, which runs to its first await.
HandlePasswordReset(pw, confirm) ==
  /\ path = "/reset-password"
  /\ ResetView = "Form"
  /\ rp.pc = "idle"
  /\ Len(pw) >= MinLength /\ Len(confirm) >= MinLength
  /\ IF PasswordError(pw, confirm) # ""
     THEN /\ rp' = [rp EXCEPT !.error = PasswordError(pw, confirm)]
          /\ UNCHANGED up
     ELSE LET u == UpdatePasswordEntry(recovery_session, session) IN
          /\ up' = u
          /\ rp' = IF u.pc = "idle"
                   THEN [rp EXCEPT !.error = u.result]
                   ELSE [rp EXCEPT !.pc = "updating", !.error = ""]
  /\ UNCHANGED <<browserVars, providerSession, isRecoveryFlow, user, session,
                 userRole, loading, getSessionPending, roleFetch, intercept,
                 so, au, af, roleVars, storeVars, dashVars, payVars>>

\* supabase.auth.setSession resolving: the provider takes the session of the
\* tokens and reports SIGNED_IN, or refuses the tokens. updatePassword does
\* not look at the outcome and calls updateUser.
SetSessionResolve(ok) ==
  /\ up.pc = "setSession"
  /\ LET s == SessionOfTokens(AccessToken(up.recoverySession),
                              RefreshToken(up.recoverySession)) IN
     IF ok
     THEN providerSession' = s /\ Notify("SIGNED_IN", s)
     ELSE UNCHANGED <<providerSession, recovery_session, intercept, session,
                      user, userRole, loading, roleFetch>>
  /\ up' = [up EXCEPT !.pc = "updateUser", !.log = Append(@, "updateUser")]
  /\ UNCHANGED <<path, search, isRecoveryFlow, getSessionPending, so,
                 pageVars, af, roleVars, storeVars, dashVars, payVars>>

\* supabase.auth.updateUser resolving, the rest of updatePassword and the
\* continuation of handlePasswordReset up to its await of signOut. The update
\* succeeds only under a provider session, and then reports USER_UPDATED.
UpdateUserResolve(ok) ==
  /\ up.pc = "updateUser"
  /\ ok => providerSession # Null
  /\ LET l == IF ok THEN ListenerNoIntercept("USER_UPDATED", providerSession)
              ELSE [session |-> session, user |-> user, userRole |-> userRole,
                    loading |-> loading, roleFetch |-> roleFetch] IN
     /\ session' = l.session
     /\ user' = l.user
     /\ userRole' = l.userRole
     /\ loading' = l.loading
     /\ roleFetch' = l.roleFetch
  /\ recovery_session' = Absent
  /\ up' = [up EXCEPT !.pc = "idle", !.recoverySession = Null,
                      !.result = IF ok THEN "ok" ELSE "AuthError",
                      !.toast = IF ok THEN "Password updated"
                                ELSE "Password update failed"]
  /\ rp' = IF ok THEN [rp EXCEPT !.pc = "signOut", !.isSuccess = TRUE]
           ELSE [rp EXCEPT !.pc = "idle", !.error = "AuthError"]
  /\ UNCHANGED <<path, search, providerSession, isRecoveryFlow,
                 getSessionPending, intercept, so, au, af, roleVars, storeVars,
                 dashVars, payVars>>

(***************************************************************************)
(* signOut                                                                 *)
(***************************************************************************)

\* The adapter's signOut once supabase.auth.signOut() has resolved: the
\* provider drops its session and reports SIGNED_OUT to the listener, or fails
\* and keeps it; then setUser(null), setSession(null), setUserRole(null).
SignOutEffect(ok) ==
  /\ providerSession' = IF ok THEN Null ELSE providerSession
  /\ LET l == IF ok THEN Listener("SIGNED_OUT", Null)
              ELSE [recovery_session |-> recovery_session,
                    intercept |-> intercept, loading |-> loading,
                    roleFetch |-> roleFetch] IN
     /\ recovery_session' = l.recovery_session
     /\ intercept' = l.intercept
     /\ loading' = l.loading
     /\ roleFetch' = l.roleFetch
  /\ user' = Null
  /\ session' = Null
  /\ userRole' = Null

\* handlePasswordReset after its await of signOut: the redirect is scheduled.
ResetSignOutResolve(ok) ==
  /\ rp.pc = "signOut"
  /\ SignOutEffect(ok)
  /\ rp' = [rp EXCEPT !.pc = "timer"]
  /\ UNCHANGED <<path, search, isRecoveryFlow, getSessionPending, up, so, au,
                 af, roleVars, storeVars, dashVars, payVars>>

\* The timer of handlePasswordReset: window.location.href = '/auth'.
ResetRedirect ==
  /\ rp.pc = "timer"
  /\ Reload("/auth", NoSearch)
  /\ UNCHANGED <<recovery_session, providerSession, roleVars, storeVars,
                 dashVars, payVars>>

\* The Sign Out button of the Index header.
SignOutClick ==
  /\ path = "/"
  /\ ~loading
  /\ user # Null
  /\ so = "idle"
  /\ so' = "pending"
  /\ UNCHANGED <<browserVars, providerSession, isRecoveryFlow, user, session,
                 userRole, loading, getSessionPending, roleFetch, intercept,
                 up, pageVars, af, roleVars, storeVars, dashVars, payVars>>

SignOutResolve(ok) ==
  /\ so = "pending"
  /\ SignOutEffect(ok)
  /\ so' = "idle"
  /\ UNCHANGED <<path, search, isRecoveryFlow, getSessionPending, up,
                 pageVars, af, roleVars, storeVars, dashVars, payVars>>

(***************************************************************************)
(* The Auth page: signIn and signUp                                        *)
(***************************************************************************)

AlreadyExists ==
  "You already have an account with this email. Please sign in instead."

\* What supabase.auth.signUp can answer: an error, or a user with or without
\* a session, or neither.
SignUpResponses ==
  {[error |-> "AuthApiError", user |-> Null, session |-> Null], NoResp}
  \cup {[error |-> Null, user |-> SessionUser(s), session |-> s] :
          s \in Sessions}
  \cup {[error |-> Null, user |-> SessionUser(s), session |-> Null] :
          s \in Sessions}

\* signUp after its await: the error it returns and the toast it shows.
SignUpOutcomeNoCheck(resp) ==
  IF resp.error # Null
  THEN [error |-> resp.error, toast |-> "Sign up failed"]
  ELSE [error |-> resp.error, toast |-> "Check your email"]
SignUpOutcome(resp) ==
  IF resp.error # Null
  THEN [error |-> resp.error, toast |-> "Sign up failed"]
  ELSE IF resp.user # Null /\ resp.session = Null
       THEN [error |-> AlreadyExists, toast |-> "Account already exists"]
       ELSE [error |-> resp.error, toast |-> "Check your email"]

\* The submit of the sign-in (op = "signIn") or sign-up (op = "signUp") form.
AuthSubmit(op) ==
  /\ path = "/auth"
  /\ user = Null
  /\ au.pc = "idle"
  /\ au' = [au EXCEPT !.pc = op]
  /\ UNCHANGED <<browserVars, providerSession, adapterVars, rp, af, roleVars,
                 storeVars, dashVars, payVars>>

\* supabase.auth.signInWithPassword resolving with a session (and SIGNED_IN
\* reported to the listener) or with an error, and the rest of signIn.
SignInResolve(s) ==
  /\ au.pc = "signIn"
  /\ IF s # Null
     THEN providerSession' = s /\ Notify("SIGNED_IN", s)
     ELSE UNCHANGED <<providerSession, recovery_session, intercept, session,
                      user, userRole, loading, roleFetch>>
  /\ au' = [pc |-> "idle",
            result |-> IF s = Null THEN "AuthApiError" ELSE Null,
            toast |-> IF s = Null THEN "Sign in failed" ELSE "none"]
  /\ UNCHANGED <<path, search, isRecoveryFlow, getSessionPending, up, so, rp,
                 af, roleVars, storeVars, dashVars, payVars>>

\* supabase.auth.signUp resolving, and the rest of signUp. An answer with a
\* session has signed the user in.
SignUpResolve(resp) ==
  /\ au.pc = "signUp"
  /\ IF resp.session # Null
     THEN providerSession' = resp.session /\ Notify("SIGNED_IN", resp.session)
     ELSE UNCHANGED <<providerSession, recovery_session, intercept, session,
                      user, userRole, loading, roleFetch>>
  /\ au' = [pc |-> "idle",
            result |-> SignUpOutcome(resp).error,
            toast |-> SignUpOutcome(resp).toast]
  /\ UNCHANGED <<path, search, isRecoveryFlow, getSessionPending, up, so, rp,
                 af, roleVars, storeVars, dashVars, payVars>>

(***************************************************************************)
(* The router pages                                                        *)
(***************************************************************************)

\* What Index renders.
IndexViewNoGuard ==
  IF loading THEN "Loading"
  ELSE IF userRole = "admin" THEN "AdminPanel" ELSE "ReferrerDashboard"
IndexView ==
  IF loading THEN "Loading"
  ELSE IF user = Null THEN "Navigate /auth"
  ELSE IF userRole = "admin" THEN "AdminPanel"
  ELSE "ReferrerDashboard"

\* <Navigate to="/auth" replace /> of Index taking effect.
IndexNavigate ==
  /\ path = "/"
  /\ IndexView = "Navigate /auth"
  /\ path' = "/auth"
  /\ search' = NoSearch
  /\ UNCHANGED <<recovery_session, providerSession, adapterVars, pageVars,
                 af, roleVars, storeVars, dashVars, payVars>>

\* <Navigate to="/" replace /> of Auth (a user is signed in) and of
\* ResetPassword (a user is signed in and the URL has no recovery indicator).
PageNavigateHome ==
  /\ \/ path = "/auth" /\ user # Null
     \/ path = "/reset-password" /\ user # Null
          /\ ~IsPasswordResetSession(search)
  /\ path' = "/"
  /\ search' = NoSearch
  /\ UNCHANGED <<recovery_session, providerSession, adapterVars, pageVars,
                 af, roleVars, storeVars, dashVars, payVars>>

\* The links of ResetPassword to /auth ("Back to Sign In", "Go to Sign In").
ResetLinkToAuth ==
  /\ path = "/reset-password"
  /\ path' = "/auth"
  /\ search' = NoSearch
  /\ UNCHANGED <<recovery_session, providerSession, adapterVars, pageVars,
                 af, roleVars, storeVars, dashVars, payVars>>

(***************************************************************************)
(* The store: the referrals table, its types and its row-level security    *)
(***************************************************************************)

\* The most rows the referrals table holds in the model.
MaxReferrals == 1

\* CREATE TYPE public.referral_stage AS ENUM (...)
ReferralStageCreated ==
  <<"Client Signed", "Site Inspection Done", "Documents Verified",
    "Solar Installed">>

\* ALTER TYPE ... ADD VALUE v BEFORE b
AddValueBefore(enum, v, b) ==
  LET i == CHOOSE k \in 1..Len(enum) : enum[k] = b IN
  SubSeq(enum, 1, i - 1) \o <<v>> \o SubSeq(enum, i, Len(enum))

\* referral_stage after the migration that adds 'Referred Connection'.
ReferralStage ==
  AddValueBefore(ReferralStageCreated, "Referred Connection", "Client Signed")

\* CREATE TYPE public.bonus_status AS ENUM ('Pending', 'Paid')
BonusStatus == <<"Pending", "Paid">>

\* The position of a label in the order of the enum type.
StageIndex(s) == CHOOSE i \in 1..Len(ReferralStage) : ReferralStage[i] = s

Range(seq) == {seq[i] : i \in 1..Len(seq)}

\* The column defaults of referrals, after the migration.
DefaultStage == "Referred Connection"
DefaultBonusStatus == "Pending"

\* A column the request does not carry.
Omitted == "(omitted)"

\* The cast of a request's text to an enum type: it fails on a text that is
\* no label of the type.
CastAny(enum, text) == TRUE
CastOk(enum, text) == text \in Range(enum)

\* Whether the values of a request are accepted by the column types of
\* referrals (stage referral_stage, bonus_status bonus_status).
ValuesOk(p) ==
  /\ p.stage = Omitted \/ CastOk(ReferralStage, p.stage)
  /\ p.bonus_status = Omitted \/ CastOk(BonusStatus, p.bonus_status)

\* "Users can view their own referrals", "Admins can view all referrals"
ReferralVisibleAll(uid, row) == TRUE
ReferralVisible(uid, row) == row.user_id = uid \/ HasRole(uid, "admin")

\* "Users can create their own referrals", "Admins can create referrals for
\* any user": the WITH CHECK of an insert.
InsertCheckAny(uid, row) == TRUE
InsertCheck(uid, row) == row.user_id = uid \/ HasRole(uid, "admin")

\* "Users can update their own referrals", "Admins can update all referrals":
\* the USING of an update, which is its WITH CHECK too as none is given.
UpdateUsing(uid, row) == row.user_id = uid \/ HasRole(uid, "admin")

\* select * from referrals, as uid: the ids of the rows returned.
SelectReferrals(uid) ==
  {i \in 1..Len(referrals) : ReferralVisible(uid, referrals[i])}

\* The row an insert request makes: the defaults fill what it omits.
\* NewRow with the stage default of the create-table statement, as the
\* table stood before the migration that moved the default.
NewRowTableDefault(p) ==
  [user_id |-> p.user_id,
   client_name |-> p.client_name,
   stage |-> IF p.stage = Omitted THEN "Client Signed" ELSE p.stage,
   bonus_status |-> IF p.bonus_status = Omitted THEN DefaultBonusStatus
                    ELSE p.bonus_status,
   notes |-> Null]

NewRow(p) ==
  [user_id |-> p.user_id,
   client_name |-> p.client_name,
   stage |-> IF p.stage = Omitted THEN DefaultStage ELSE p.stage,
   bonus_status |-> IF p.bonus_status = Omitted THEN DefaultBonusStatus
                    ELSE p.bonus_status,
   notes |-> Null]

\* insert into referrals, as uid: the error, or the table with the new row.
\* client_name is NOT NULL, user_id references auth.users.
InsertReferral(uid, p) ==
  IF ~ValuesOk(p) THEN [error |-> "invalid input value for enum"]
  ELSE IF p.client_name = Null \/ p.user_id = Null
  THEN [error |-> "null value violates not-null constraint"]
  ELSE IF p.user_id \notin auth_users
  THEN [error |-> "violates foreign key constraint"]
  ELSE IF ~InsertCheck(uid, NewRow(p))
  THEN [error |-> "new row violates row-level security policy"]
  ELSE [error |-> Null, table |-> Append(referrals, NewRow(p))]

\* The row an update request makes of a row.
PatchedStageOnly(row, p) ==
  [row EXCEPT !.stage = IF p.stage = Omitted THEN @ ELSE p.stage]
Patched(row, p) ==
  [row EXCEPT
     !.stage = IF p.stage = Omitted THEN @ ELSE p.stage,
     !.bonus_status = IF p.bonus_status = Omitted THEN @ ELSE p.bonus_status,
     !.notes = IF p.notes = Omitted THEN @ ELSE p.notes]

\* update referrals set ... where id = id, as uid: the error, or the table
\* with the row changed when the policies let uid update it.
UpdateReferralNoFilter(uid, id, p) ==
  IF ~ValuesOk(p) THEN [error |-> "invalid input value for enum"]
  ELSE [error |-> Null,
        table |-> [i \in 1..Len(referrals) |->
                     IF UpdateUsing(uid, referrals[i])
                     THEN Patched(referrals[i], p) ELSE referrals[i]]]
UpdateReferral(uid, id, p) ==
  IF ~ValuesOk(p) THEN [error |-> "invalid input value for enum"]
  ELSE IF id \in 1..Len(referrals) /\ UpdateUsing(uid, referrals[id])
          /\ ReferralVisible(uid, referrals[id])
  THEN IF UpdateUsing(uid, Patched(referrals[id], p))
       THEN [error |-> Null,
             table |-> [referrals EXCEPT ![id] = Patched(@, p)]]
       ELSE [error |-> "new row violates row-level security policy"]
  ELSE [error |-> Null, table |-> referrals]

(***************************************************************************)
(* Initial values shared by the specifications                             *)
(***************************************************************************)

\* The last request the store answered: the table and the operation, the
\* caller (auth.uid()), whether its values were labels of the column types,
\* the error returned, whether the table changed, the ids of the rows a
\* select returned.
Answer(table, op, caller, valid, error, changed, rows) ==
  [table |-> table, op |-> op, caller |-> caller, valid |-> valid,
   error |-> error, changed |-> changed, rows |-> rows]

NoRequest == Answer("none", "none", Null, TRUE, Null, FALSE, {})

NoPayload == [user_id |-> Null, client_name |-> Null]
\* The state of a dashboard before its mount effect: loading, empty form.
RdIdle == [loading |-> TRUE, client_name |-> "", isAdding |-> FALSE,
           req |-> NoPayload, fetches |-> 0, list |-> {}, toast |-> "none"]
ApIdle == [loading |-> TRUE, user_id |-> "", client_name |-> "",
           isAdding |-> FALSE, req |-> NoPayload, fetches |-> 0, list |-> {},
           toast |-> "none"]

\* The referral list of AdminPanel before its first fetch has answered and
\* its edit dialog closed: rows is the list as fetched (referral ids to
\* rows), editingReferral the copy under edit, req the update in flight.
NoEdit == [id |-> 0, stage |-> Null, bonus_status |-> Null, notes |-> Null]
EdIdle ==
  [rows |-> <<>>, editingReferral |-> NoEdit, toast |-> "none",
   inflight |-> {}]

\* user_roles once the three users have signed up and adm has been made the
\* administrator: by an update of its row, or by the insert of a second row.
RolesByUpdate ==
  {[user_id |-> "u1", role |-> "referrer"],
   [user_id |-> "u2", role |-> "referrer"],
   [user_id |-> "adm", role |-> "admin"]}
RolesByInsert == RolesByUpdate \cup {[user_id |-> "adm", role |-> "referrer"]}

\* user_roles once the administrator's role has been taken back: adm holds
\* the referrer role only (while its panel may still be open).
RolesRevoked ==
  {[user_id |-> u, role |-> "referrer"] : u \in Users}

StoreAtRest ==
  /\ referrals = <<>>
  /\ last = NoRequest
\* A key a JSON object does not have.
Unset == "(unset)"

\* The keys the payment forms write, and the object {} as a record of them.
PaymentKeys ==
  {"email_or_phone", "email", "full_name", "bank_name", "account_number",
   "routing_number"}
NoDetails == [k \in PaymentKeys |-> Unset]

\* The referrer whose dashboard is open, and the row the signup trigger made
\* for it, with the columns of the payment migration (a NULL payment_details
\* reads as {}: data.payment_details || {}).
PayUser == "u1"
ProfileCreated ==
  [user_id |-> PayUser, payment_method |-> Null, payment_details |-> NoDetails]

\* userProfile before a profile has been fetched: no row, no id.
NoProfile ==
  [user_id |-> Null, payment_method |-> Null, payment_details |-> NoDetails]

\* The payment tab before the profile has been fetched.
PayIdle ==
  [userProfile |-> NoProfile, paymentMethod |-> "", paymentDetails |-> NoDetails,
   fetches |-> 0, toast |-> "none"]

PayAtRest ==
  /\ profiles = ProfileCreated
  /\ pay = PayIdle

DashAtRest ==
  /\ rd = RdIdle
  /\ ap = ApIdle
  /\ ed = EdIdle
  /\ PayAtRest

\* The browser, provider and adapter of a page that is not part of the
\* specification at hand: loaded at "/", nobody signed in.
AuthAtRest ==
  /\ path = "/"
  /\ search = NoSearch
  /\ recovery_session = Absent
  /\ providerSession = Null
  /\ isRecoveryFlow = FALSE
  /\ user = Null
  /\ session = Null
  /\ userRole = Null
  /\ loading = FALSE
  /\ getSessionPending = FALSE
  /\ roleFetch = {}
  /\ intercept = "idle"
  /\ up = UpIdle
  /\ so = "idle"
  /\ rp = RpMount(NoSearch)
  /\ au = AuIdle
  /\ af = AfIdle

(***************************************************************************)
(* Spec: the adapter, its pages and the provider                           *)
(***************************************************************************)

\* The application loaded at any of its routes, with any of the query
\* strings, under any persisted provider session and stored recovery value.
Init ==
  /\ path \in Paths
  /\ search \in SearchValues
  /\ recovery_session \in StoredValues
  /\ providerSession \in Sessions \cup {Null}
  /\ isRecoveryFlow = IsRecoveryFlow(search)
  /\ user = Null
  /\ session = Null
  /\ userRole = Null
  /\ loading = ~IsRecoveryFlow(search)
  /\ getSessionPending = ~IsRecoveryFlow(search)
  /\ roleFetch = {}
  /\ intercept = "idle"
  /\ up = UpIdle
  /\ so = "idle"
  /\ rp = RpMount(search)
  /\ au = AuIdle
  /\ af = AfIdle
  /\ auth_users = Users
  /\ user_roles = RolesByUpdate
  /\ StoreAtRest
  /\ DashAtRest

Next ==
  \/ \E e \in AuthEvents, s \in Sessions \cup {Null} : ProviderEmit(e, s)
  \/ \E ok \in BOOLEAN : InterceptRedirect(ok)
  \/ GetSessionResolve
  \/ \E u \in Users : RoleFetchResolve(u)
  \/ \E pw \in Passwords, confirm \in Passwords :
       HandlePasswordReset(pw, confirm)
  \/ \E ok \in BOOLEAN : SetSessionResolve(ok)
  \/ \E ok \in BOOLEAN : UpdateUserResolve(ok)
  \/ \E ok \in BOOLEAN : ResetSignOutResolve(ok)
  \/ ResetRedirect
  \/ SignOutClick
  \/ \E ok \in BOOLEAN : SignOutResolve(ok)
  \/ \E op \in {"signIn", "signUp"} : AuthSubmit(op)
  \/ \E s \in Sessions \cup {Null} : SignInResolve(s)
  \/ \E resp \in SignUpResponses : SignUpResolve(resp)
  \/ IndexNavigate
  \/ PageNavigateHome
  \/ ResetLinkToAuth

Spec == Init /\ [][Next]_vars

\* Spec with every request of the start-up answered: the getSession() promise
\* and each deferred role fetch resolve once they are pending.
SpecLive ==
  /\ Init /\ [][Next]_vars
  /\ WF_vars(GetSessionResolve)
  /\ \A u \in Users : WF_vars(RoleFetchResolve(u))

(***************************************************************************)
(* SpecStore: the referrals table called through the client API            *)
(***************************************************************************)

\* The stage and bonus_status texts a request can carry.
StageInputs == Range(ReferralStage) \cup {Omitted, "Bogus"}
BonusInputs == Range(BonusStatus) \cup {Omitted, "Bogus"}

InsertPayloads ==
  [user_id : Users, client_name : {"Acme"}, stage : StageInputs,
   bonus_status : BonusInputs]

UpdatePayloads ==
  [stage : StageInputs, bonus_status : BonusInputs, notes : {Omitted}]

\* supabase.from('referrals').select('*') by caller c.
StoreSelect(c) ==
  /\ last' = Answer("referrals", "select", c, TRUE, Null, FALSE,
                    SelectReferrals(c))
  /\ UNCHANGED <<referrals, authVars, roleVars, dashVars, payVars>>

\* supabase.from('referrals').insert([p]) by caller c.
StoreInsert(c, p) ==
  /\ Len(referrals) < MaxReferrals
  /\ LET r == InsertReferral(c, p) IN
     /\ referrals' = IF r.error = Null THEN r.table ELSE referrals
     /\ last' = Answer("referrals", "insert", c, ValuesOk(p), r.error,
                       r.error = Null, {})
  /\ UNCHANGED <<authVars, roleVars, dashVars, payVars>>

\* supabase.from('referrals').update(p).eq('id', id) by caller c.
StoreUpdate(c, id, p) ==
  /\ id \in 1..Len(referrals)
  /\ LET r == UpdateReferral(c, id, p) IN
     /\ referrals' = IF r.error = Null THEN r.table ELSE referrals
     /\ last' = Answer("referrals", "update", c, ValuesOk(p), r.error,
                       r.error = Null /\ r.table # referrals, {})
  /\ UNCHANGED <<authVars, roleVars, dashVars, payVars>>

InitStore ==
  /\ AuthAtRest
  /\ auth_users = Users
  /\ user_roles \in {RolesByUpdate, RolesByInsert}
  /\ StoreAtRest
  /\ DashAtRest

NextStore ==
  \/ \E c \in Users : StoreSelect(c)
  \/ \E c \in Users, p \in InsertPayloads : StoreInsert(c, p)
  \/ \E c \in Users, id \in 1..MaxReferrals, p \in UpdatePayloads :
       StoreUpdate(c, id, p)

SpecStore == InitStore /\ [][NextStore]_vars

(***************************************************************************)
(* SpecRoles: user_roles called through the client API, and the signup     *)
(* trigger                                                                 *)
(***************************************************************************)

RoleRow(u, r) == [user_id |-> u, role |-> r]

\* The role texts a request can carry.
RoleInputs == AppRole \cup {"Bogus"}

\* "Admins can manage all roles", FOR ALL USING has_role(auth.uid(), 'admin'):
\* the USING of an update or delete and, as no WITH CHECK is given, the
\* check of an inserted or updated row.  No other policy of user_roles is
\* for a command other than SELECT.
RolesManageOwn(uid, row) == row.user_id = uid \/ HasRole(uid, "admin")
RolesManage(uid, row) == HasRole(uid, "admin")

\* handle_new_user(), SECURITY DEFINER: the default role of a new user.
HandleNewUser(u) == user_roles \cup {RoleRow(u, "referrer")}

\* insert into user_roles (user_id, role), as uid.
InsertUserRole(uid, row) ==
  IF row.role \notin AppRole THEN [error |-> "invalid input value for enum"]
  ELSE IF ~RolesManage(uid, row)
  THEN [error |-> "new row violates row-level security policy"]
  ELSE IF row \in user_roles
  THEN [error |-> "duplicate key value violates unique constraint"]
  ELSE IF row.user_id \notin auth_users
  THEN [error |-> "violates foreign key constraint"]
  ELSE [error |-> Null, table |-> user_roles \cup {row}]

\* update user_roles set role = r where user_id = old.user_id and
\* role = old.role, as uid.  has_role is STABLE: the check of the new row
\* reads the table as it was before the statement.
UpdateUserRole(uid, old, r) ==
  IF r \notin AppRole THEN [error |-> "invalid input value for enum"]
  ELSE IF old \notin SelectUserRoles(uid) \/ ~RolesManage(uid, old)
  THEN [error |-> Null, table |-> user_roles]
  ELSE IF ~RolesManage(uid, RoleRow(old.user_id, r))
  THEN [error |-> "new row violates row-level security policy"]
  ELSE IF r # old.role /\ RoleRow(old.user_id, r) \in user_roles
  THEN [error |-> "duplicate key value violates unique constraint"]
  ELSE [error |-> Null,
        table |-> (user_roles \ {old}) \cup {RoleRow(old.user_id, r)}]

\* delete from user_roles where user_id = ... and role = ..., as uid.
DeleteUserRole(uid, row) ==
  IF row \in SelectUserRoles(uid) /\ RolesManage(uid, row)
  THEN user_roles \ {row}
  ELSE user_roles

\* A new row of auth.users: the trigger on_auth_user_created runs.
SignUpNewUser(u) ==
  /\ u \notin auth_users
  /\ auth_users' = auth_users \cup {u}
  /\ user_roles' = HandleNewUser(u)
  /\ last' = Answer("auth.users", "signup", u, TRUE, Null, TRUE, {})
  /\ UNCHANGED <<authVars, referrals, dashVars, payVars>>

RolesInsert(c, row) ==
  /\ c \in auth_users
  /\ LET r == InsertUserRole(c, row) IN
     /\ user_roles' = IF r.error = Null THEN r.table ELSE user_roles
     /\ last' = Answer("user_roles", "insert", c, row.role \in AppRole,
                       r.error, r.error = Null, {})
  /\ UNCHANGED <<authVars, auth_users, referrals, dashVars, payVars>>

RolesUpdate(c, old, role) ==
  /\ c \in auth_users
  /\ LET r == UpdateUserRole(c, old, role) IN
     /\ user_roles' = IF r.error = Null THEN r.table ELSE user_roles
     /\ last' = Answer("user_roles", "update", c, role \in AppRole, r.error,
                       r.error = Null /\ r.table # user_roles, {})
  /\ UNCHANGED <<authVars, auth_users, referrals, dashVars, payVars>>

RolesDelete(c, row) ==
  /\ c \in auth_users
  /\ user_roles' = DeleteUserRole(c, row)
  /\ last' = Answer("user_roles", "delete", c, TRUE, Null,
                    DeleteUserRole(c, row) # user_roles, {})
  /\ UNCHANGED <<authVars, auth_users, referrals, dashVars, payVars>>

\* Nobody has signed up; or adm has, and has been made the administrator by
\* an update of its row or by the insert of a second row.
InitRoles ==
  /\ AuthAtRest
  /\ \/ auth_users = {} /\ user_roles = {}
     \/ /\ auth_users = {"adm"}
        /\ user_roles \in {{RoleRow("adm", "admin")},
                           {RoleRow("adm", "admin"),
                            RoleRow("adm", "referrer")}}
  /\ StoreAtRest
  /\ DashAtRest

NextRoles ==
  \/ \E u \in Users : SignUpNewUser(u)
  \/ \E c \in Users, u \in Users, r \in RoleInputs :
       RolesInsert(c, RoleRow(u, r))
  \/ \E c \in Users, old \in user_roles, r \in RoleInputs :
       RolesUpdate(c, old, r)
  \/ \E c \in Users, u \in Users, r \in AppRole :
       RolesDelete(c, RoleRow(u, r))

SpecRoles == InitRoles /\ [][NextRoles]_vars

(***************************************************************************)
(* SpecDash: the add-referral forms of ReferrerDashboard and AdminPanel     *)
(***************************************************************************)

\* The most fetches a dashboard has in flight in the model.
MaxFetches == 1

\* What is typed in a client-name field.
ClientNames == {"", "Acme"}

\* The referrer whose dashboard is open, and the administrator whose panel
\* is open in another browser.
ReferrerUser == "u1"
AdminUser == "adm"

\* <Input id="client_name" required>: the browser submits the form only when
\* the field is filled; the submit button is disabled while adding.
RdCanSubmitAny(f) == ~f.isAdding
RdCanSubmit(f) == ~f.isAdding /\ f.client_name # ""

\* disabled={isAdding || !newReferral.user_id || !newReferral.client_name}
ApCanClick(f) == ~(f.isAdding \/ f.user_id = "" \/ f.client_name = "")

\* onChange of the client-name field of the referrer's form.
RdType(v) ==
  /\ ~rd.loading
  /\ rd.client_name # v
  /\ rd' = [rd EXCEPT !.client_name = v]
  /\ UNCHANGED <<authVars, roleVars, storeVars, ap, ed, payVars>>

\* handleAddReferral of ReferrerDashboard to its await: the insert request
\* carries user?.id and the fields of the form.
RdSubmit ==
  /\ ~rd.loading
  /\ RdCanSubmit(rd)
  /\ rd' = [rd EXCEPT !.isAdding = TRUE,
                      !.req = [user_id |-> user,
                               client_name |-> rd.client_name]]
  /\ UNCHANGED <<authVars, roleVars, storeVars, ap, ed, payVars>>

\* The insert of a dashboard f is answered, as caller uid: by the store, or
\* not at all (ok = FALSE, a network error).
InsertAnswer(f, uid, ok) ==
  IF ok
  THEN InsertReferral(uid, [user_id |-> f.req.user_id,
                            client_name |-> f.req.client_name,
                            stage |-> Omitted, bonus_status |-> Omitted])
  ELSE [error |-> "Failed to fetch"]

\* handleAddReferral of ReferrerDashboard from its await: on success the
\* toast, the form reset and fetchReferrals(); on an error the toast.
RdInsertResolve(ok) ==
  /\ rd.isAdding
  /\ LET r == InsertAnswer(rd, SessionUser(providerSession), ok) IN
     IF r.error = Null
     THEN /\ Len(referrals) < MaxReferrals
          /\ rd.fetches < MaxFetches
          /\ referrals' = r.table
          /\ rd' = [rd EXCEPT !.isAdding = FALSE, !.req = NoPayload,
                              !.toast = "Success", !.client_name = "",
                              !.fetches = @ + 1]
     ELSE /\ referrals' = referrals
          /\ rd' = [rd EXCEPT !.isAdding = FALSE, !.req = NoPayload,
                              !.toast = "Failed to add referral"]
  /\ UNCHANGED <<authVars, roleVars, last, ap, ed, payVars>>

\* fetchReferrals from its await: select * where user_id = user?.id.
RdFetchResolve(ok) ==
  /\ rd.fetches > 0
  /\ rd' = [rd EXCEPT
       !.fetches = @ - 1,
       !.loading = FALSE,
       !.list = IF ok
                THEN {i \in SelectReferrals(SessionUser(providerSession)) :
                        referrals[i].user_id = user}
                ELSE @,
       !.toast = IF ok THEN @ ELSE "Failed to fetch referrals"]
  /\ UNCHANGED <<authVars, roleVars, storeVars, ap, ed, payVars>>

\* The user Select and the client-name field of the admin's form.
ApSelectUser(u) ==
  /\ ~ap.loading
  /\ ap.user_id # u
  /\ ap' = [ap EXCEPT !.user_id = u]
  /\ UNCHANGED <<authVars, roleVars, storeVars, rd, ed, payVars>>

ApType(v) ==
  /\ ~ap.loading
  /\ ap.client_name # v
  /\ ap' = [ap EXCEPT !.client_name = v]
  /\ UNCHANGED <<authVars, roleVars, storeVars, rd, ed, payVars>>

\* handleAddReferral of AdminPanel to its await: insert([newReferral]).
ApClick ==
  /\ ~ap.loading
  /\ ApCanClick(ap)
  /\ ap' = [ap EXCEPT !.isAdding = TRUE,
                      !.req = [user_id |-> ap.user_id,
                               client_name |-> ap.client_name]]
  /\ UNCHANGED <<authVars, roleVars, storeVars, rd, ed, payVars>>

\* handleAddReferral of AdminPanel from its await.
ApInsertResolve(ok) ==
  /\ ap.isAdding
  /\ LET r == InsertAnswer(ap, AdminUser, ok) IN
     IF r.error = Null
     THEN /\ Len(referrals) < MaxReferrals
          /\ ap.fetches < MaxFetches
          /\ referrals' = r.table
          /\ ap' = [ap EXCEPT !.isAdding = FALSE, !.req = NoPayload,
                              !.toast = "Success", !.user_id = "",
                              !.client_name = "", !.fetches = @ + 1]
     ELSE /\ referrals' = referrals
          /\ ap' = [ap EXCEPT !.isAdding = FALSE, !.req = NoPayload,
                              !.toast = "Failed to add referral"]
  /\ UNCHANGED <<authVars, roleVars, last, rd, ed, payVars>>

\* fetchData from its await on the referrals select.
ApFetchResolve(ok) ==
  /\ ap.fetches > 0
  /\ ap' = [ap EXCEPT
       !.fetches = @ - 1,
       !.loading = FALSE,
       !.list = IF ok THEN SelectReferrals(AdminUser) ELSE @,
       !.toast = IF ok THEN @ ELSE "Failed to fetch data"]
  /\ UNCHANGED <<authVars, roleVars, storeVars, rd, ed, payVars>>

\* ReferrerUser is signed in at "/" and its dashboard has mounted; the panel
\* of AdminUser has mounted: each has issued its first fetch.  AdminUser
\* holds the admin role, or has lost it since its panel was opened.
InitDash ==
  /\ path = "/"
  /\ search = NoSearch
  /\ recovery_session = Absent
  /\ providerSession = "s_u1"
  /\ isRecoveryFlow = FALSE
  /\ user = ReferrerUser
  /\ session = "s_u1"
  /\ userRole = "referrer"
  /\ loading = FALSE
  /\ getSessionPending = FALSE
  /\ roleFetch = {}
  /\ intercept = "idle"
  /\ up = UpIdle
  /\ so = "idle"
  /\ rp = RpMount(NoSearch)
  /\ au = AuIdle
  /\ af = AfIdle
  /\ auth_users = Users
  /\ user_roles \in {RolesByUpdate, RolesByInsert, RolesRevoked}
  /\ StoreAtRest
  /\ rd = [RdIdle EXCEPT !.fetches = 1]
  /\ ap = [ApIdle EXCEPT !.fetches = 1]
  /\ ed = EdIdle
  /\ PayAtRest

NextDash ==
  \/ \E v \in ClientNames : RdType(v)
  \/ RdSubmit
  \/ \E ok \in BOOLEAN : RdInsertResolve(ok)
  \/ \E ok \in BOOLEAN : RdFetchResolve(ok)
  \/ \E u \in {"u1", "u2"} : ApSelectUser(u)
  \/ \E v \in ClientNames : ApType(v)
  \/ ApClick
  \/ \E ok \in BOOLEAN : ApInsertResolve(ok)
  \/ \E ok \in BOOLEAN : ApFetchResolve(ok)

SpecDash == InitDash /\ [][NextDash]_vars

(***************************************************************************)
(* SpecAuthForms: the forms of the Auth page                               *)
(***************************************************************************)

\* What is typed into the sign-in and sign-up forms (the whole of the
\* form's fields as one text) and into the forgot-password email field.
Credentials == {"", "a@b.c secret1"}
Emails == {"", "a@b.c"}

\* The Auth page shows its forms: nobody is signed in.
AuthFormsShown == path = "/auth" /\ user = Null

\* isLoading of Auth: one of its handlers is between its two setIsLoading.
AfIsLoading == au.pc # "idle" \/ af.pc # "idle"

\* onChange of the sign-in fields, shown while the forgot form is not.
AfTypeSignIn(v) ==
  /\ AuthFormsShown
  /\ ~af.showForgotPassword
  /\ af.signInData # v
  /\ af' = [af EXCEPT !.signInData = v]
  /\ UNCHANGED <<browserVars, providerSession, adapterVars, pageVars,
                 roleVars, storeVars, dashVars, payVars>>

\* onChange of the sign-up fields.
AfTypeSignUp(v) ==
  /\ AuthFormsShown
  /\ af.signUpData # v
  /\ af' = [af EXCEPT !.signUpData = v]
  /\ UNCHANGED <<browserVars, providerSession, adapterVars, pageVars,
                 roleVars, storeVars, dashVars, payVars>>

\* onChange of the forgot-password email field.
AfTypeForgot(v) ==
  /\ AuthFormsShown
  /\ af.showForgotPassword
  /\ af.forgotPasswordEmail # v
  /\ af' = [af EXCEPT !.forgotPasswordEmail = v]
  /\ UNCHANGED <<browserVars, providerSession, adapterVars, pageVars,
                 roleVars, storeVars, dashVars, payVars>>

\* "Forgot your password?" (b = TRUE) and "Back to Sign In" (b = FALSE).
AfShowForgot(b) ==
  /\ AuthFormsShown
  /\ af.showForgotPassword # b
  /\ af' = [af EXCEPT !.showForgotPassword = b]
  /\ UNCHANGED <<browserVars, providerSession, adapterVars, pageVars,
                 roleVars, storeVars, dashVars, payVars>>

\* The submit of the sign-in or sign-up form: its fields are required and
\* its button is disabled while isLoading.
AfSubmit(op) ==
  /\ ~AfIsLoading
  /\ IF op = "signIn"
     THEN ~af.showForgotPassword /\ af.signInData # ""
     ELSE af.signUpData # ""
  /\ AuthSubmit(op)

\* handleForgotPassword to its await of resetPassword.
AfSubmitForgot ==
  /\ AuthFormsShown
  /\ ~AfIsLoading
  /\ af.showForgotPassword
  /\ af.forgotPasswordEmail # ""
  /\ af' = [af EXCEPT !.pc = "resetPassword"]
  /\ UNCHANGED <<browserVars, providerSession, adapterVars, pageVars,
                 roleVars, storeVars, dashVars, payVars>>

\* resetPassword after its await: the error it returns and the toast.
ResetPasswordOutcome(ok) ==
  IF ok THEN [error |-> Null, toast |-> "Check your email"]
  ELSE [error |-> "AuthApiError", toast |-> "Reset failed"]

\* supabase.auth.resetPasswordForEmail resolving, the rest of resetPassword
\* and of handleForgotPassword.
AfForgotResolve(ok) ==
  /\ af.pc = "resetPassword"
  /\ af' = [af EXCEPT !.pc = "idle",
                      !.result = ResetPasswordOutcome(ok).error,
                      !.toast = ResetPasswordOutcome(ok).toast,
                      !.showForgotPassword = FALSE,
                      !.forgotPasswordEmail = ""]
  /\ UNCHANGED <<browserVars, providerSession, adapterVars, pageVars,
                 roleVars, storeVars, dashVars, payVars>>

\* A call of the adapter awaited by a handler of Auth has not settled.
AfRequestPending ==
  au.pc \in {"signIn", "signUp"} \/ af.pc = "resetPassword"

\* The awaited call rejects (the provider's client throws what is not an
\* auth error): handleSignIn, handleSignUp and handleForgotPassword have no
\* try, so the handler ends at its await, before setIsLoading(false).
AfReject ==
  /\ AfRequestPending
  /\ IF af.pc = "resetPassword"
     THEN af' = [af EXCEPT !.pc = "rejected"] /\ UNCHANGED au
     ELSE au' = [au EXCEPT !.pc = "rejected"] /\ UNCHANGED af
  /\ UNCHANGED <<browserVars, providerSession, adapterVars, rp, roleVars,
                 storeVars, dashVars, payVars>>

\* The Auth page loaded with nobody signed in, after the session fetch.
InitAuthForms ==
  /\ path = "/auth"
  /\ search = NoSearch
  /\ recovery_session = Absent
  /\ providerSession = Null
  /\ isRecoveryFlow = FALSE
  /\ user = Null
  /\ session = Null
  /\ userRole = Null
  /\ loading = FALSE
  /\ getSessionPending = FALSE
  /\ roleFetch = {}
  /\ intercept = "idle"
  /\ up = UpIdle
  /\ so = "idle"
  /\ rp = RpMount(NoSearch)
  /\ au = AuIdle
  /\ af = AfIdle
  /\ auth_users = Users
  /\ user_roles = RolesByUpdate
  /\ StoreAtRest
  /\ DashAtRest

NextAuthForms ==
  \/ \E v \in Credentials : AfTypeSignIn(v)
  \/ \E v \in Credentials : AfTypeSignUp(v)
  \/ \E v \in Emails : AfTypeForgot(v)
  \/ \E b \in BOOLEAN : AfShowForgot(b)
  \/ \E op \in {"signIn", "signUp"} : AfSubmit(op)
  \/ AfSubmitForgot
  \/ \E ok \in BOOLEAN : AfForgotResolve(ok)
  \/ AfReject
  \/ \E s \in Sessions \cup {Null} : SignInResolve(s)
  \/ \E resp \in SignUpResponses : SignUpResolve(resp)

SpecAuthForms == InitAuthForms /\ [][NextAuthForms]_vars

(***************************************************************************)
(* SpecEdit: the edit dialog of AdminPanel                                 *)
(***************************************************************************)

\* The referrals in the table when the panel is opened: one of each
\* referrer.
EditRows ==
  <<[user_id |-> "u1", client_name |-> "Acme", stage |-> DefaultStage,
     bonus_status |-> DefaultBonusStatus, notes |-> Null],
    [user_id |-> "u2", client_name |-> "Borealis", stage |-> "Solar Installed",
     bonus_status |-> DefaultBonusStatus, notes |-> Null]>>

\* The stages picked in the dialog: the first and the last of the Select.
EditStages == {ReferralStage[1], ReferralStage[Len(ReferralStage)]}

\* What is typed into the notes of the dialog.
NotesInputs == {"call back"}

\* The referrals select of fetchData, as uid: the rows it returns, by id.
FetchedRows(uid) == [i \in SelectReferrals(uid) |-> referrals[i]]

\* onClick={() => setEditingReferral(referral)} on a row of the list.
EdOpen(id) ==
  /\ id \in DOMAIN ed.rows
  /\ ed' = [ed EXCEPT !.editingReferral =
              [id |-> id, stage |-> ed.rows[id].stage,
               bonus_status |-> ed.rows[id].bonus_status,
               notes |-> ed.rows[id].notes]]
  /\ UNCHANGED <<authVars, roleVars, storeVars, rd, ap, payVars>>

\* The stage Select, the bonus Select and the notes Textarea of the dialog.
EdSetStage(v) ==
  /\ ed.editingReferral # NoEdit
  /\ ed.editingReferral.stage # v
  /\ ed' = [ed EXCEPT !.editingReferral.stage = v]
  /\ UNCHANGED <<authVars, roleVars, storeVars, rd, ap, payVars>>

EdSetBonus(v) ==
  /\ ed.editingReferral # NoEdit
  /\ ed.editingReferral.bonus_status # v
  /\ ed' = [ed EXCEPT !.editingReferral.bonus_status = v]
  /\ UNCHANGED <<authVars, roleVars, storeVars, rd, ap, payVars>>

EdSetNotes(v) ==
  /\ ed.editingReferral # NoEdit
  /\ ed.editingReferral.notes # v
  /\ ed' = [ed EXCEPT !.editingReferral.notes = v]
  /\ UNCHANGED <<authVars, roleVars, storeVars, rd, ap, payVars>>

\* The update of handleUpdateReferral is answered: by the store, or not at
\* all.
UpdateAnswer(ok) ==
  IF ok
  THEN UpdateReferral(AdminUser, ed.editingReferral.id,
                      [stage |-> ed.editingReferral.stage,
                       bonus_status |-> ed.editingReferral.bonus_status,
                       notes |-> ed.editingReferral.notes])
  ELSE [error |-> "Failed to fetch"]

\* handleUpdateReferral, with the fetchData() it ends in: update({stage,
\* bonus_status, notes}).eq('id', editingReferral.id); on success the toast,
\* the dialog closed and the list fetched again (fetched: the select is
\* answered); on an error the toast, the dialog kept.
HandleUpdateReferral(ok, fetched) ==
  /\ ed.editingReferral # NoEdit
  /\ LET r == UpdateAnswer(ok) IN
     IF r.error = Null
     THEN /\ referrals' = r.table
          /\ ed' = [editingReferral |-> NoEdit,
                    inflight |-> ed.inflight,
                    rows |-> IF fetched
                             THEN [i \in SelectReferrals(AdminUser) |->
                                     r.table[i]]
                             ELSE ed.rows,
                    toast |-> IF fetched THEN "Referral updated successfully"
                              ELSE "Failed to fetch data"]
     ELSE /\ referrals' = referrals
          /\ ed' = [ed EXCEPT !.toast = "Failed to update referral"]
  /\ UNCHANGED <<authVars, roleVars, last, rd, ap, payVars>>

\* What the dialog of the second panel sends: the three fields of its copy,
\* taken when the referral was new and then marked Paid, or taken after the
\* last stage and the notes were set.
DialogPayloads ==
  {[stage |-> DefaultStage, bonus_status |-> "Paid", notes |-> Null],
   [stage |-> "Solar Installed", bonus_status |-> "Pending",
    notes |-> "call back"]}

\* handleUpdateReferral of a second panel, open in another browser under an
\* admin session: its update of referral id, with the three fields of its
\* own dialog, is applied by the store.
EdOtherAdmin(id, p) ==
  /\ id \in 1..Len(referrals)
  /\ LET r == UpdateReferral(AdminUser, id, p) IN
       /\ r.error = Null
       /\ referrals' = r.table
  /\ referrals' # referrals
  /\ UNCHANGED <<authVars, roleVars, last, dashVars, payVars>>

\* The panel of AdminUser has mounted and fetched its list; the table holds
\* EditRows.
InitEdit ==
  /\ AuthAtRest
  /\ auth_users = Users
  /\ user_roles \in {RolesByUpdate, RolesByInsert}
  /\ referrals = EditRows
  /\ last = NoRequest
  /\ rd = RdIdle
  /\ ap = ApIdle
  /\ ed = [EdIdle EXCEPT !.rows = FetchedRows(AdminUser)]
  /\ PayAtRest

NextEdit ==
  \/ \E id \in 1..Len(EditRows) : EdOpen(id)
  \/ \E v \in EditStages : EdSetStage(v)
  \/ \E v \in Range(BonusStatus) : EdSetBonus(v)
  \/ \E v \in NotesInputs : EdSetNotes(v)
  \/ \E ok, fetched \in BOOLEAN : HandleUpdateReferral(ok, fetched)
  \/ \E id \in 1..Len(EditRows), p \in DialogPayloads : EdOtherAdmin(id, p)

SpecEdit == InitEdit /\ [][NextEdit]_vars

(***************************************************************************)
(* SpecLists: the list of AdminPanel and the answers of fetchData          *)
(***************************************************************************)

\* The most answers of fetchData on their way to the panel in the model.
MaxInFlight == 2

\* handleUpdateReferral with the store's answers kept apart from their
\* arrival: the update is applied, the toast shown, the dialog closed and
\* fetchData() called; the store evaluates its select, and the answer is on
\* its way.  A failed update shows its toast and fetches nothing.
EdUpdateThenFetch(ok) ==
  /\ ed.editingReferral # NoEdit
  /\ LET r == UpdateAnswer(ok) IN
     IF r.error = Null
     THEN /\ Cardinality(ed.inflight) < MaxInFlight
          /\ referrals' = r.table
          /\ ed' = [ed EXCEPT
               !.editingReferral = NoEdit,
               !.toast = "Referral updated successfully",
               !.inflight = @ \cup {[i \in SelectReferrals(AdminUser) |->
                                       r.table[i]]}]
     ELSE /\ referrals' = referrals
          /\ ed' = [ed EXCEPT !.toast = "Failed to update referral"]
  /\ UNCHANGED <<authVars, roleVars, last, rd, ap, payVars>>

\* An answer of fetchData arrives, in whatever order the network delivers:
\* setReferrals(referralsWithUsers).
EdFetchArrive ==
  /\ \E rows \in ed.inflight :
       ed' = [ed EXCEPT !.rows = rows, !.inflight = @ \ {rows}]
  /\ UNCHANGED <<authVars, roleVars, storeVars, rd, ap, payVars>>

\* The panel of AdminUser has mounted and fetched its list; the table holds
\* EditRows.
InitLists ==
  /\ AuthAtRest
  /\ auth_users = Users
  /\ user_roles = RolesByUpdate
  /\ referrals = EditRows
  /\ last = NoRequest
  /\ rd = RdIdle
  /\ ap = ApIdle
  /\ ed = [EdIdle EXCEPT !.rows = FetchedRows(AdminUser)]
  /\ PayAtRest

NextLists ==
  \/ \E id \in 1..Len(EditRows) : EdOpen(id)
  \/ \E v \in EditStages : EdSetStage(v)
  \/ \E ok \in BOOLEAN : EdUpdateThenFetch(ok)
  \/ EdFetchArrive

SpecLists == InitLists /\ [][NextLists]_vars

(***************************************************************************)
(* SpecPay: the payment tab of ReferrerDashboard and the profiles table    *)
(***************************************************************************)

\* <SelectItem value="zelle">, "paypal", "bank_transfer".
PaymentMethods == {"zelle", "paypal", "bank_transfer"}

\* The inputs renderPaymentFields shows for a method: the keys the column
\* comment gives the method.
MethodFields(m) ==
  CASE m = "zelle" -> {"email_or_phone"}
    [] m = "paypal" -> {"email"}
    [] m = "bank_transfer" ->
         {"full_name", "bank_name", "account_number", "routing_number"}
    [] OTHER -> {}

\* The keys of a JSON object.
Keys(d) == {k \in PaymentKeys : d[k] # Unset}

\* What is typed into the Zelle input, the PayPal input and a bank input;
\* the texts an <Input type="email"> accepts.
ZelleTexts == {"", "555"}
PaypalTexts == {"", "555", "a@b.co"}
BankTexts == {"", "x"}
EmailTexts == {"a@b.co"}

\* The browser's validation of the payment form: every input shown is
\* required, and the PayPal one is of type email.
PaymentFormValid ==
  /\ \A k \in MethodFields(pay.paymentMethod) :
       pay.paymentDetails[k] \notin {Unset, ""}
  /\ pay.paymentMethod = "paypal" => pay.paymentDetails["email"] \in EmailTexts

\* CHECK (payment_method IN ('zelle', 'paypal', 'bank_transfer')): a NULL
\* passes.  payment_details is JSONB with a COMMENT and no constraint.
ProfileCheck(p) == p.payment_method \in PaymentMethods \cup {Null}

\* "Users can update their own profile", "Admins can update all profiles".
ProfileUpdateUsing(uid, row) == row.user_id = uid \/ HasRole(uid, "admin")

\* update profiles set payment_method, payment_details where id = the row's,
\* as uid: the error, or the row afterwards.
UpdateProfile(uid, p) ==
  IF ~ProfileUpdateUsing(uid, profiles) THEN [error |-> Null, row |-> profiles]
  ELSE IF ~ProfileCheck(p)
  THEN [error |-> "violates check constraint"]
  ELSE [error |-> Null,
        row |-> [profiles EXCEPT !.payment_method = p.payment_method,
                                 !.payment_details = p.payment_details]]

\* The payment method Select: onValueChange sets the method and empties the
\* details.
PaySelectMethod(m) ==
  /\ pay.paymentMethod # m
  /\ pay' = [pay EXCEPT !.paymentMethod = m, !.paymentDetails = NoDetails]
  /\ UNCHANGED <<authVars, roleVars, storeVars, dashVars, profiles>>

\* The Zelle and PayPal inputs: onChange replaces the details by one key.
PayTypeZelle(v) ==
  /\ pay.paymentMethod = "zelle"
  /\ pay.paymentDetails # [NoDetails EXCEPT !["email_or_phone"] = v]
  /\ pay' = [pay EXCEPT
       !.paymentDetails = [NoDetails EXCEPT !["email_or_phone"] = v]]
  /\ UNCHANGED <<authVars, roleVars, storeVars, dashVars, profiles>>

PayTypePaypal(v) ==
  /\ pay.paymentMethod = "paypal"
  /\ pay.paymentDetails # [NoDetails EXCEPT !["email"] = v]
  /\ pay' = [pay EXCEPT !.paymentDetails = [NoDetails EXCEPT !["email"] = v]]
  /\ UNCHANGED <<authVars, roleVars, storeVars, dashVars, profiles>>

\* The four bank inputs: onChange spreads the details and sets one key.
PayTypeBank(k, v) ==
  /\ pay.paymentMethod = "bank_transfer"
  /\ pay.paymentDetails[k] # v
  /\ pay' = [pay EXCEPT !.paymentDetails[k] = v]
  /\ UNCHANGED <<authVars, roleVars, storeVars, dashVars, profiles>>

\* The update of handleSavePaymentDetails is answered: by the store, or not
\* at all.
SaveAnswer(ok) ==
  IF ok
  THEN UpdateProfile(PayUser, [payment_method |-> pay.paymentMethod,
                               payment_details |-> pay.paymentDetails])
  ELSE [error |-> "Failed to fetch"]

\* handleSavePaymentDetails to the fetchUserProfile() it issues: the button
\* is shown once a method is chosen, the browser submits a valid form, the
\* handler returns when no profile is loaded.
HandleSavePaymentDetails(ok) ==
  /\ pay.paymentMethod # ""
  /\ PaymentFormValid
  /\ pay.userProfile # NoProfile
  /\ LET r == SaveAnswer(ok) IN
     IF r.error = Null
     THEN /\ pay.fetches < MaxFetches
          /\ profiles' = r.row
          /\ pay' = [pay EXCEPT !.toast = "Payment details saved successfully",
                                !.fetches = @ + 1]
     ELSE /\ profiles' = profiles
          /\ pay' = [pay EXCEPT !.toast = "Failed to save payment details"]
  /\ UNCHANGED <<authVars, roleVars, storeVars, dashVars>>

\* fetchUserProfile from its await: the profile kept, and the form set from
\* it when it has a method; an error is only logged.
FetchUserProfile(ok) ==
  /\ pay.fetches > 0
  /\ pay' = IF ~ok THEN [pay EXCEPT !.fetches = @ - 1]
            ELSE IF profiles.payment_method # Null
            THEN [pay EXCEPT !.fetches = @ - 1,
                             !.userProfile = profiles,
                             !.paymentMethod = profiles.payment_method,
                             !.paymentDetails = profiles.payment_details]
            ELSE [pay EXCEPT !.fetches = @ - 1, !.userProfile = profiles]
  /\ UNCHANGED <<authVars, roleVars, storeVars, dashVars, profiles>>

\* The payloads a client sends to the profiles table on its own: one of the
\* shape of its method, one of another shape, one of no method.
ApiProfilePayloads ==
  {[payment_method |-> "zelle",
    payment_details |-> [NoDetails EXCEPT !["email_or_phone"] = "555"]],
   [payment_method |-> "bank_transfer",
    payment_details |-> [NoDetails EXCEPT !["email"] = "a@b.co"]],
   [payment_method |-> "cash", payment_details |-> NoDetails]}

\* supabase.from('profiles').update(p) by a signed-in client.
ApiUpdateProfile(uid, p) ==
  /\ LET r == UpdateProfile(uid, p) IN
       profiles' = IF r.error = Null THEN r.row ELSE profiles
  /\ profiles' # profiles \/ ~ProfileCheck(p)
  /\ UNCHANGED <<authVars, roleVars, storeVars, dashVars, pay>>

\* The dashboard of PayUser has mounted and issued fetchUserProfile; its
\* profile is as the signup trigger made it.
InitPay ==
  /\ AuthAtRest
  /\ auth_users = Users
  /\ user_roles = RolesByUpdate
  /\ StoreAtRest
  /\ rd = RdIdle
  /\ ap = ApIdle
  /\ ed = EdIdle
  /\ profiles = ProfileCreated
  /\ pay = [PayIdle EXCEPT !.fetches = 1]

NextPay ==
  \/ \E m \in PaymentMethods : PaySelectMethod(m)
  \/ \E v \in ZelleTexts : PayTypeZelle(v)
  \/ \E v \in PaypalTexts : PayTypePaypal(v)
  \/ \E k \in MethodFields("bank_transfer"), v \in BankTexts :
       PayTypeBank(k, v)
  \/ \E ok \in BOOLEAN : HandleSavePaymentDetails(ok)
  \/ \E ok \in BOOLEAN : FetchUserProfile(ok)
  \/ \E uid \in Users, p \in ApiProfilePayloads : ApiUpdateProfile(uid, p)

SpecPay == InitPay /\ [][NextPay]_vars

(***************************************************************************)
(* Properties of the adapter and its pages (checked under Spec)            *)
(***************************************************************************)

\* A step in which updatePassword is entered: it was idle and has now either
\* returned or made its first provider call.
UpdatePasswordEntered == up.pc = "idle" /\ up' # up /\ up' # UpIdle

\* A step in which an invocation of updatePassword returns.
UpdatePasswordReturned ==
  up' # up /\ up' # UpIdle /\ up'.pc = "idle"

\* C1: after a load with recovery query parameters the adapter never exposes a
\* non-null user or session to the views, whatever events the provider sends.
C1_RecoveryNeverLoggedIn ==
  isRecoveryFlow => user = Null /\ session = Null

\* C2: when an invocation of updatePassword returns, whatever its outcome, the
\* local-storage key 'recovery_session' is absent.
C2_StoredSessionRemoved ==
  [][UpdatePasswordReturned => recovery_session' = Absent]_vars

\* C3: updatePassword prefers the stored recovery session: with one stored it
\* calls setSession with the stored tokens and only then updateUser; with none
\* stored and an ambient session it calls updateUser alone; with neither it
\* returns the error and calls the provider not at all.
C3_PrefersStoredSession ==
  /\ [][UpdatePasswordEntered =>
          IF \E s \in Sessions : recovery_session = JSONStringify(s)
          THEN \E s \in Sessions :
                 /\ recovery_session = JSONStringify(s)
                 /\ up'.pc = "setSession"
                 /\ up'.log = <<"setSession(" \o AccessToken(s) \o ","
                                  \o RefreshToken(s) \o ")">>
          ELSE IF session # Null
               THEN up'.pc = "updateUser" /\ up'.log = <<"updateUser">>
               ELSE /\ up'.pc = "idle"
                    /\ up'.log = <<>>
                    /\ up'.result = NoValidSession]_vars
  /\ [][up.pc = "setSession" /\ up' # up /\ up' # UpIdle =>
          up'.pc = "updateUser" /\ up'.log = Append(up.log, "updateUser")]_vars
  /\ [][up.pc = "updateUser" /\ up' # up /\ up' # UpIdle =>
          up'.pc = "idle" /\ up'.log = up.log]_vars

\* C3 witness: a recovery session of u1 was stored while the administrator's
\* session was the ambient one; setSession was called with u1's tokens and
\* updateUser after it.
C3_Witness ==
  /\ up.log = <<SetSessionCall("s_u1"), "updateUser">>
  /\ session = "s_adm"
  /\ up.recoverySession = "s_u1"

\* C4: signUp returns the 'account already exists' error, and shows that
\* notification, exactly when the provider answers without error with a user
\* and no session; a provider error is returned as it is; an answer with a
\* session returns no error.
C4_SignUpAlreadyExists ==
  [][\A resp \in SignUpResponses :
       SignUpResolve(resp) =>
         /\ au'.result = AlreadyExists <=>
              (resp.error = Null /\ resp.user # Null /\ resp.session = Null)
         /\ au'.toast = "Account already exists" <=>
              (resp.error = Null /\ resp.user # Null /\ resp.session = Null)
         /\ resp.error # Null => au'.result = resp.error
         /\ (resp.error = Null /\ resp.session # Null) => au'.result = Null]_vars

\* C4 witness: signUp has returned the 'account already exists' error.
C4_Witness ==
  au.pc = "idle" /\ au.result = AlreadyExists
    /\ au.toast = "Account already exists"

\* C10: whenever the adapter reports loading = false and user = null, Index
\* renders neither dashboard and redirects to /auth.
C10_UnauthenticatedRedirect ==
  (~loading /\ user = Null) =>
    /\ IndexView \notin {"AdminPanel", "ReferrerDashboard"}
    /\ IndexView = "Navigate /auth"
    /\ path = "/" => ENABLED IndexNavigate

\* C10 witness: the main route is open, loading is over, nobody is signed in.
\* The load had no recovery parameters: loading ended with the session fetch.
C10_Witness ==
  path = "/" /\ ~loading /\ user = Null /\ ~isRecoveryFlow
    /\ ~getSessionPending

(***************************************************************************)
(* Properties of the store and the dashboards                              *)
(***************************************************************************)

\* C5: in the referrer dashboard and in the admin panel no insert request to
\* referrals is issued while the client-name field is empty: every request
\* in flight carries a client name, and with an empty field the submit of
\* the rendered form issues nothing.
C5_NoInsertWithoutClientName ==
  /\ rd.isAdding => rd.req.client_name # ""
  /\ ap.isAdding => ap.req.client_name # ""
  /\ (~rd.loading /\ rd.client_name = "") => ~ENABLED RdSubmit
  /\ (~ap.loading /\ ap.client_name = "") => ~ENABLED ApClick
  /\ \A i \in 1..Len(referrals) : referrals[i].client_name # ""

\* Both forms are rendered with an empty client-name field, the admin has
\* picked a user, and an earlier insert has gone through.
C5_Witness ==
  /\ ~rd.loading /\ rd.client_name = "" /\ ~rd.isAdding
  /\ ~ap.loading /\ ap.client_name = "" /\ ap.user_id # "" /\ ~ap.isAdding
  /\ Len(referrals) > 0

\* C6: every referral's stage is one of the five pipeline values and its
\* bonus_status is Pending or Paid; an insert or update that carries another
\* value is answered with an error and changes nothing.
C6_EnumValuesOnly ==
  /\ \A i \in 1..Len(referrals) :
       /\ referrals[i].stage \in
            {"Referred Connection", "Client Signed", "Site Inspection Done",
             "Documents Verified", "Solar Installed"}
       /\ referrals[i].bonus_status \in {"Pending", "Paid"}
  /\ (last.table = "referrals" /\ last.op \in {"insert", "update"}
        /\ ~last.valid)
       => last.error # Null /\ ~last.changed

\* The administrator's update of an existing row carried a value that is no
\* label, and was refused.
C6_Witness ==
  /\ last.table = "referrals" /\ last.op = "update" /\ ~last.valid
  /\ last.caller = "adm" /\ last.error # Null
  /\ Len(referrals) = 1

\* C7: the referral rows returned to a caller who holds only the referrer
\* role all have the caller's user_id; the rows returned to a caller who
\* holds the admin role are all the rows of the table.
C7_SelectByRole ==
  (last.table = "referrals" /\ last.op = "select") =>
    /\ {r.role : r \in {x \in user_roles : x.user_id = last.caller}}
         = {"referrer"}
       => \A i \in last.rows : referrals[i].user_id = last.caller
    /\ HasRole(last.caller, "admin") => last.rows = 1..Len(referrals)

\* A referrer listed the table while it held another user's row.
C7_Witness ==
  /\ last.table = "referrals" /\ last.op = "select" /\ last.caller = "u1"
  /\ Len(referrals) = 1 /\ referrals[1].user_id = "u2"
  /\ last.rows = {}

\* C8: no update issued by a caller who is not an admin changes the stage or
\* the bonus_status of a referral.
C8_OwnerCannotChangeStage ==
  [][(last'.table = "referrals" /\ last'.op = "update"
        /\ ~HasRole(last'.caller, "admin"))
       => \A i \in 1..Len(referrals) :
            /\ referrals'[i].stage = referrals[i].stage
            /\ referrals'[i].bonus_status = referrals[i].bonus_status]_vars

\* C9: a request to user_roles by a caller who does not hold the admin role
\* leaves user_roles as it was, whoever the row is about; and a user who
\* signs up holds exactly the referrer role.
C9_RolesOnlyByAdmin ==
  /\ [][(last'.table = "user_roles" /\ ~HasRole(last'.caller, "admin"))
          => user_roles' = user_roles]_vars
  /\ [][\A u \in Users :
          (u \notin auth_users /\ u \in auth_users')
            => {r \in user_roles' : r.user_id = u}
                 = {RoleRow(u, "referrer")}]_vars

\* A referrer asked for a role row while an administrator existed, and was
\* refused.
C9_Witness ==
  /\ last.table = "user_roles" /\ last.op = "insert" /\ last.caller = "u1"
  /\ last.valid /\ last.error # Null
  /\ {r \in user_roles : r.user_id = "u1"} = {RoleRow("u1", "referrer")}
  /\ HasRole("adm", "admin")

(***************************************************************************)
(* Properties of the role fetch, the reset-password page and the adapter's *)
(* operations                                                              *)
(***************************************************************************)

\* C11: whenever the adapter reports loading = false with a non-null user
\* and Index is shown, the role of that user has been fetched and the view
\* is the one of the stored role: the Admin panel for an admin, the Referrer
\* dashboard otherwise.  Stated for the loads without recovery parameters.
C11_ViewMatchesStoredRole ==
  (path = "/" /\ ~isRecoveryFlow /\ ~loading /\ user # Null) =>
    /\ user \notin roleFetch
    /\ IndexView = IF HasRole(user, "admin") THEN "AdminPanel"
                   ELSE "ReferrerDashboard"

\* C12: the reset-password view offers the new-password form, and calls
\* updatePassword, only when the URL carries a recovery indicator; without
\* one it shows the invalid-link state and no submit is possible, and a
\* signed-in user is redirected to the main page.
C12_ResetGate ==
  /\ [](path = "/reset-password" /\ ~IsPasswordResetSession(search) =>
          /\ ResetView # "Form"
          /\ ~ENABLED (\E pw \in Passwords, c \in Passwords :
                         HandlePasswordReset(pw, c))
          /\ user = Null => ResetView = "InvalidLink" /\ rp.error = InvalidLink
          /\ user # Null => ResetView = "Navigate /" /\ ENABLED PageNavigateHome)
  /\ [][UpdatePasswordEntered =>
          path = "/reset-password" /\ IsPasswordResetSession(search)]_vars

\* The page was loaded without an indicator, nobody is signed in, and the
\* load has ended.
C12_Witness ==
  /\ path = "/reset-password" /\ ~IsPasswordResetSession(search)
  /\ user = Null /\ ~loading /\ ~getSessionPending
  /\ ResetView = "InvalidLink"

\* C13: when signOut has returned to handlePasswordReset after a password
\* update without error, the adapter's user, session and role are null and
\* the provider holds no session, so the redirect to /auth that is then
\* scheduled starts from a signed-out browser; when updatePassword returns
\* an error the page shows it and starts neither sign-out nor redirect.
C13_SignedOutBeforeRedirect ==
  /\ [][(rp.pc = "signOut" /\ rp'.pc = "timer") =>
          /\ user' = Null /\ session' = Null /\ userRole' = Null
          /\ providerSession' = Null]_vars
  /\ [][(UpdatePasswordReturned /\ up'.result # "ok") =>
          rp'.pc = "idle" /\ ~rp'.isSuccess /\ rp'.error = up'.result]_vars

\* C14: when signIn, signUp or updatePassword returns, on every outcome, a
\* notification has been shown and the caller has an error indicator: null
\* on success, the error on failure.
C14_OperationsNotify ==
  /\ [][(au.pc \in {"signIn", "signUp"} /\ au'.pc = "idle"
           /\ au'.result # "none")
          => au'.toast # "none"]_vars
  /\ [][UpdatePasswordReturned
          => up'.toast # "none" /\ up'.result # "none"]_vars

\* C15: when the store rejects the insert of the admin panel or of the
\* referrer dashboard, the notification shown carries the store's own error
\* message.
C15_StoreMessageShown ==
  /\ [][(ApInsertResolve(TRUE) /\ InsertAnswer(ap, AdminUser, TRUE).error # Null)
          => ap'.toast = InsertAnswer(ap, AdminUser, TRUE).error]_vars
  /\ [][(RdInsertResolve(TRUE)
           /\ InsertAnswer(rd, SessionUser(providerSession), TRUE).error # Null)
          => rd'.toast
               = InsertAnswer(rd, SessionUser(providerSession), TRUE).error]_vars

\* C16: a failed operation of the Auth page leaves the input that produced
\* it unchanged: a failed sign-in or sign-up keeps the entered credentials,
\* a failed reset-link request keeps the entered email and leaves the
\* forgot-password form open.
C16_InputKeptOnFailure ==
  /\ [][(au.pc = "signIn" /\ au'.pc = "idle" /\ au'.result \notin {Null, "none"})
          => af'.signInData = af.signInData]_vars
  /\ [][(au.pc = "signUp" /\ au'.pc = "idle" /\ au'.result \notin {Null, "none"})
          => af'.signUpData = af.signUpData]_vars
  /\ [][(af.pc = "resetPassword" /\ af'.pc = "idle" /\ af'.result # Null)
          => /\ af'.forgotPasswordEmail = af.forgotPasswordEmail
             /\ af'.showForgotPassword]_vars

C18_CreatedOwnedByCaller ==
  (last.table = "referrals" /\ last.op = "insert"
     /\ ~HasRole(last.caller, "admin")) =>
    /\ last.changed =>
         referrals[Len(referrals)].user_id = last.caller
    /\ last.error = "new row violates row-level security policy" =>
         ~last.changed

\* A referrer's insert was refused by the policy: it named another user.
C18_Witness ==
  /\ last.table = "referrals" /\ last.op = "insert" /\ last.caller = "u1"
  /\ last.error = "new row violates row-level security policy"
  /\ referrals = <<>>

(***************************************************************************)
(* Properties of the admin panel's edit dialog                             *)
(***************************************************************************)

ShapeMatches(m, d) == Keys(d) = MethodFields(m)

\* C20: a save of the payment tab that goes through leaves the profile with
\* details whose keys are exactly the fields of its method, and the store
\* leaves the profile as it was when a client sends it details whose keys
\* are not those of the method sent.
C20_DetailsMatchMethod ==
  [][/\ \A ok \in BOOLEAN :
          HandleSavePaymentDetails(ok) /\ profiles' # profiles =>
            ShapeMatches(profiles'.payment_method, profiles'.payment_details)
     /\ \A uid \in Users, p \in ApiProfilePayloads :
          ApiUpdateProfile(uid, p)
          /\ ~ShapeMatches(p.payment_method, p.payment_details) =>
            profiles' = profiles
    ]_vars

(***************************************************************************)
(* Properties of the interception and of the recovery slot                 *)
(***************************************************************************)

\* C21: when the listener gets SIGNED_IN during a recovery flow, that step
\* writes the session to the recovery slot, starts the provider sign-out and
\* leaves user, session, role and location as they were; the redirect to
\* /reset-password with the same query is the step in which that sign-out
\* resolves, and a sign-out that succeeded has cleared the provider session.
C21_InterceptionOrder ==
  [][/\ (isRecoveryFlow /\ \E s \in Sessions : ProviderEmit("SIGNED_IN", s)) =>
          /\ recovery_session' = JSONStringify(providerSession')
          /\ intercept' = "signOut"
          /\ user' = user /\ session' = session /\ userRole' = userRole
          /\ path' = path /\ search' = search
     /\ \A ok \in BOOLEAN :
          InterceptRedirect(ok) =>
            /\ intercept = "signOut"
            /\ path' = "/reset-password" /\ search' = search
            /\ recovery_session' = recovery_session
            /\ user' = Null /\ session' = Null
            /\ ok => providerSession' = Null
    ]_vars

\* The interception has stored the administrator's session and awaits the
\* sign-out.
C21_Witness ==
  /\ intercept = "signOut"
  /\ recovery_session = JSONStringify("s_adm")
  /\ path = "/"

\* C22: the step in which setSession of updatePassword resolves does not run
\* the interception (which writes the recovery slot), and an updatePassword
\* call that took the stored session leaves the slot empty when it is over.
C22_SlotUsedOnce ==
  [][/\ \A ok \in BOOLEAN :
          SetSessionResolve(ok) =>
            intercept' = intercept /\ recovery_session' = recovery_session
     /\ (up.recoverySession # Null /\ up'.pc = "idle") =>
          recovery_session' = Absent
    ]_vars

\* C23: on the reset-password page, setSession of updatePassword resolving
\* does not start a sign-out when none was pending, and while updateUser is
\* awaited under the stored session no interception signs the provider out
\* and reloads the page.
C23_UpdateUnderAppliedSession ==
  [][/\ \A ok \in BOOLEAN :
          (SetSessionResolve(ok) /\ intercept = "idle") => intercept' = "idle"
     /\ \A ok \in BOOLEAN :
          InterceptRedirect(ok) =>
            ~(up.pc = "updateUser" /\ up.recoverySession # Null)
    ]_vars

(***************************************************************************)
(* Properties of concurrent edits and of the stage order                   *)
(***************************************************************************)

\* C24: whichever panel's update of a referral the store applies, the
\* referral's stage, bonus_status and notes afterwards are the three values
\* of that update's payload, whatever the row held before.
C24_LastWriteWins ==
  [][/\ \A fetched \in BOOLEAN :
          HandleUpdateReferral(TRUE, fetched) =>
            LET id == ed.editingReferral.id IN
            /\ referrals'[id].stage = ed.editingReferral.stage
            /\ referrals'[id].bonus_status = ed.editingReferral.bonus_status
            /\ referrals'[id].notes = ed.editingReferral.notes
     /\ \A id \in 1..Len(referrals), p \in DialogPayloads :
          EdOtherAdmin(id, p) =>
            /\ referrals'[id].stage = p.stage
            /\ referrals'[id].bonus_status = p.bonus_status
            /\ referrals'[id].notes = p.notes
    ]_vars

\* The panel's own edit of the first referral was applied and fetched (its
\* list shows the last stage and the notes), and a later update of the other
\* panel has put back the first stage and empty notes, and set Paid.
C24_Witness ==
  /\ 1 \in DOMAIN ed.rows
  /\ ed.rows[1].stage = "Solar Installed"
  /\ ed.rows[1].notes = "call back"
  /\ ed.rows[1].bonus_status = "Pending"
  /\ referrals[1].stage = "Referred Connection"
  /\ referrals[1].notes = Null
  /\ referrals[1].bonus_status = "Paid"

(***************************************************************************)
(* Properties of the controls and of the loading flag                      *)
(***************************************************************************)

\* C25: the submit buttons of the Auth page are disabled exactly while a
\* request of one of its handlers has not settled.
C25_DisabledWhilePending == AfIsLoading <=> AfRequestPending

\* C26: when the session fetch and the role fetches are answered, a loading
\* flag that is true becomes false, and the flag goes from false to true only
\* with a new page load (the redirect after a password reset or after an
\* interception), never within one mounting of the provider.
C26_LoadingEnds ==
  /\ loading ~> ~loading
  /\ [][(~loading /\ loading') =>
          (ResetRedirect \/ \E ok \in BOOLEAN : InterceptRedirect(ok))]_vars

\* The start-up with an existing session has ended: the administrator's role
\* has been fetched and the flag is down.
C26_Witness ==
  /\ ~loading
  /\ ~getSessionPending
  /\ roleFetch = {}
  /\ user = "adm"
  /\ userRole = "admin"

\* C27: an update made from the edit dialog never moves the stage of a
\* referral to an earlier position of the pipeline order.
C27_StageNeverBack ==
  [][\A ok, fetched \in BOOLEAN :
       HandleUpdateReferral(ok, fetched) =>
         \A i \in 1..Len(referrals) :
           StageIndex(referrals'[i].stage) >= StageIndex(referrals[i].stage)
    ]_vars

(***************************************************************************)
(* Properties of the role shown and of the referral lists                  *)
(***************************************************************************)

\* C28: a role held by the adapter is a role of the adapter's current user;
\* there is no role without a user.
C28_RoleOfCurrentUser ==
  userRole # Null => user # Null /\ HasRole(user, userRole)

\* C29: when no answer of fetchData is on its way, the list the admin panel
\* shows is the rows of the store the administrator can see.
C29_ListMatchesStore ==
  ed.inflight = {} => ed.rows = FetchedRows(AdminUser)

\* C30: a referral created by handleAddReferral of the referrer dashboard or
\* of the admin panel starts at the first pipeline stage, 'Referred
\* Connection', with bonus_status 'Pending'.
C30_NewReferralDefaults ==
  [][\A ok \in BOOLEAN :
       (RdInsertResolve(ok) \/ ApInsertResolve(ok))
       /\ Len(referrals') > Len(referrals)
       => /\ referrals'[Len(referrals')].stage = "Referred Connection"
          /\ referrals'[Len(referrals')].stage = ReferralStage[1]
          /\ referrals'[Len(referrals')].bonus_status = "Pending"
          /\ \A i \in 1..Len(referrals) : referrals'[i] = referrals[i]]_vars

\* A referral added from a dashboard is in the table, with the defaults.
C30_Witness ==
  /\ Len(referrals) = 1
  /\ referrals[1].stage = "Referred Connection"
  /\ referrals[1].bonus_status = "Pending"
  /\ rd.toast = "Success" \/ ap.toast = "Success"

====
